---------------------------- MODULE Spec2Model ----------------------------
(***************************************************************************)
(* breizorro: a binary mask from a radio image.  make_noise_map estimates  *)
(* the local noise with a minimum filter and an order-statistic            *)
(* calibration ratio; main thresholds the image against it, clears the     *)
(* border, dilates and fills holes, and writes the mask.                   *)
(*                                                                         *)
(* Numbers.  The code computes in IEEE doubles.  Here a finite double is   *)
(* an integer count of quanta, 1e-10 being Floor quanta; +inf, -inf and    *)
(* nan are the three values Inf, NegInf and NaN, and every comparison and  *)
(* arithmetic step goes through FLt, FDiv, FMul, FMean, which treat them   *)
(* as IEEE does.  Probabilities are fixed-point with denominator CdfScale, *)
(* abscissae of the calibration grid have denominator XDen.                *)
(***************************************************************************)
EXTENDS Integers, Sequences, FiniteSets, TLC

VARIABLES
    shape,          \* <<H, W>> of the image plane
    input_image,    \* get_image(input_fits): [Pixels -> quanta]
    boxsize,        \* int(options.boxsize)
    threshold,      \* float(options.threshold), in units of 1/ThrDen
    dilate,         \* int(options.dilate)
    fill_holes,     \* options.fill_holes
    savenoise,      \* options.savenoise
    noise_image,    \* make_noise_map's result, or Unset
    median_noise,   \* the median make_noise_map logs, or Unset
    mask_image,     \* the mask, or Unset
    stage_in,       \* the mask the last morphological stage was given
    stages,         \* the stages executed so far, in order
    noise_fits,     \* TRUE once the noise image has been written
    mask_fits,      \* the mask written to the output file, or Unset
    pc              \* position in main

vars == <<shape, input_image, boxsize, threshold, dilate, fill_holes, savenoise,
          noise_image, median_noise, mask_image, stage_in, stages,
          noise_fits, mask_fits, pc>>

---------------------------------------------------------------------------
(* Bounds of the model *)

MaxPixels == 6

MaxBox == 3

---------------------------------------------------------------------------
(* Doubles *)

Unset == <<>>

Inf == 2^30

NegInf == -Inf

NaN == Inf + 1

IsNaN(a) == a = NaN

\* a < b on doubles: false as soon as one side is nan
FLt(a, b) == ~IsNaN(a) /\ ~IsNaN(b) /\ a < b

FGt(a, b) == FLt(b, a)

FGe(a, b) == ~IsNaN(a) /\ ~IsNaN(b) /\ a >= b

\* a / r for a finite and r a finite non-negative number: x/0 is +-inf, 0/0 is nan
FDiv(a, r) ==
    IF r = 0
    THEN IF a > 0 THEN Inf ELSE IF a < 0 THEN NegInf ELSE NaN
    ELSE a \div r

\* (a + b) / 2
FMean(a, b) ==
    IF IsNaN(a) \/ IsNaN(b) THEN NaN
    ELSE IF a = Inf \/ b = Inf
         THEN IF a = NegInf \/ b = NegInf THEN NaN ELSE Inf
    ELSE IF a = NegInf \/ b = NegInf THEN NegInf
    ELSE (a + b) \div 2

\* t * a for a finite t
FMul(t, a) ==
    IF IsNaN(a) THEN NaN
    ELSE IF a = Inf \/ a = NegInf
         THEN IF t = 0 THEN NaN
              ELSE IF (t > 0) = (a = Inf) THEN Inf ELSE NegInf
    ELSE t * a

\* 1.0e-10
Floor == 1024

\* the quanta of one image unit
PixUnit == 256 * Floor

---------------------------------------------------------------------------
(* The calibration ratio: make_noise_map, lines 54-58 *)

GridPoints == 1000

XDen == GridPoints - 1

CdfScale == 2^15

\* x = numpy.linspace(-10, 10, 1000), times XDen
XGrid(i) == -10 * XDen + 20 * (i - 1)

\* f = 0.5 * (1.0 + erf(x / sqrt(2.0))), times CdfScale
NormalCdf ==
    <<
     0, 0, 0, 0, 0, 0, 0, 0, 0, 0, 0, 0, 0, 0, 0, 0, 0, 0, 0, 0,
     0, 0, 0, 0, 0, 0, 0, 0, 0, 0, 0, 0, 0, 0, 0, 0, 0, 0, 0, 0,
     0, 0, 0, 0, 0, 0, 0, 0, 0, 0, 0, 0, 0, 0, 0, 0, 0, 0, 0, 0,
     0, 0, 0, 0, 0, 0, 0, 0, 0, 0, 0, 0, 0, 0, 0, 0, 0, 0, 0, 0,
     0, 0, 0, 0, 0, 0, 0, 0, 0, 0, 0, 0, 0, 0, 0, 0, 0, 0, 0, 0,
     0, 0, 0, 0, 0, 0, 0, 0, 0, 0, 0, 0, 0, 0, 0, 0, 0, 0, 0, 0,
     0, 0, 0, 0, 0, 0, 0, 0, 0, 0, 0, 0, 0, 0, 0, 0, 0, 0, 0, 0,
     0, 0, 0, 0, 0, 0, 0, 0, 0, 0, 0, 0, 0, 0, 0, 0, 0, 0, 0, 0,
     0, 0, 0, 0, 0, 0, 0, 0, 0, 0, 0, 0, 0, 0, 0, 0, 0, 0, 0, 0,
     0, 0, 0, 0, 0, 0, 0, 0, 0, 0, 0, 0, 0, 0, 0, 0, 0, 0, 0, 0,
     0, 0, 0, 0, 0, 0, 0, 0, 0, 0, 0, 0, 0, 0, 0, 0, 0, 0, 0, 0,
     0, 0, 0, 0, 0, 0, 0, 0, 0, 0, 0, 0, 0, 0, 0, 0, 0, 0, 0, 0,
     0, 0, 0, 0, 0, 0, 0, 0, 0, 0, 0, 0, 0, 0, 0, 0, 0, 0, 0, 0,
     0, 0, 0, 0, 0, 0, 0, 0, 0, 0, 0, 0, 0, 0, 0, 0, 0, 0, 0, 0,
     0, 0, 0, 0, 0, 0, 0, 0, 0, 0, 0, 0, 1, 1, 1, 1, 1, 1, 1, 1,
     1, 1, 1, 1, 1, 2, 2, 2, 2, 2, 2, 3, 3, 3, 3, 4, 4, 4, 5, 5,
     5, 6, 6, 7, 7, 8, 8, 9, 10, 11, 11, 12, 13, 14, 15, 16, 17, 19, 20, 22,
     23, 25, 26, 28, 30, 32, 35, 37, 40, 42, 45, 48, 52, 55, 59, 63, 67, 71, 76, 80,
     86, 91, 97, 103, 109, 116, 123, 131, 139, 147, 156, 165, 175, 186, 196, 208, 220, 232, 246, 260,
     274, 290, 306, 322, 340, 359, 378, 398, 419, 442, 465, 489, 514, 541, 568, 597, 627, 658, 691, 724,
     760, 796, 835, 874, 916, 959, 1003, 1049, 1097, 1147, 1199, 1252, 1308, 1365, 1425, 1486, 1550, 1616, 1684, 1754,
     1826, 1901, 1979, 2058, 2141, 2225, 2313, 2403, 2495, 2591, 2689, 2790, 2893, 3000, 3109, 3221, 3336, 3454, 3576, 3700,
     3827, 3957, 4091, 4227, 4367, 4509, 4655, 4804, 4957, 5112, 5271, 5432, 5597, 5765, 5937, 6111, 6289, 6469, 6653, 6840,
     7030, 7223, 7419, 7618, 7819, 8024, 8232, 8442, 8655, 8871, 9090, 9311, 9535, 9761, 9989, 10220, 10453, 10689, 10926, 11166,
     11407, 11651, 11896, 12143, 12392, 12642, 12893, 13146, 13401, 13656, 13913, 14170, 14429, 14688, 14947, 15208, 15469, 15730, 15991, 16253,
     16515, 16777, 17038, 17299, 17560, 17821, 18080, 18339, 18598, 18855, 19112, 19367, 19622, 19875, 20126, 20376, 20625, 20872, 21117, 21361,
     21602, 21842, 22079, 22315, 22548, 22779, 23007, 23233, 23457, 23678, 23897, 24113, 24326, 24536, 24744, 24949, 25150, 25349, 25545, 25738,
     25928, 26115, 26299, 26479, 26657, 26831, 27003, 27171, 27336, 27497, 27656, 27811, 27964, 28113, 28259, 28401, 28541, 28677, 28811, 28941,
     29068, 29192, 29314, 29432, 29547, 29659, 29768, 29875, 29978, 30079, 30177, 30273, 30365, 30455, 30543, 30627, 30710, 30789, 30867, 30942,
     31014, 31084, 31152, 31218, 31282, 31343, 31403, 31460, 31516, 31569, 31621, 31671, 31719, 31765, 31809, 31852, 31894, 31933, 31972, 32008,
     32044, 32077, 32110, 32141, 32171, 32200, 32227, 32254, 32279, 32303, 32326, 32349, 32370, 32390, 32409, 32428, 32446, 32462, 32478, 32494,
     32508, 32522, 32536, 32548, 32560, 32572, 32582, 32593, 32603, 32612, 32621, 32629, 32637, 32645, 32652, 32659, 32665, 32671, 32677, 32682,
     32688, 32692, 32697, 32701, 32705, 32709, 32713, 32716, 32720, 32723, 32726, 32728, 32731, 32733, 32736, 32738, 32740, 32742, 32743, 32745,
     32746, 32748, 32749, 32751, 32752, 32753, 32754, 32755, 32756, 32757, 32757, 32758, 32759, 32760, 32760, 32761, 32761, 32762, 32762, 32763,
     32763, 32763, 32764, 32764, 32764, 32765, 32765, 32765, 32765, 32766, 32766, 32766, 32766, 32766, 32766, 32767, 32767, 32767, 32767, 32767,
     32767, 32767, 32767, 32767, 32767, 32767, 32767, 32767, 32768, 32768, 32768, 32768, 32768, 32768, 32768, 32768, 32768, 32768, 32768, 32768,
     32768, 32768, 32768, 32768, 32768, 32768, 32768, 32768, 32768, 32768, 32768, 32768, 32768, 32768, 32768, 32768, 32768, 32768, 32768, 32768,
     32768, 32768, 32768, 32768, 32768, 32768, 32768, 32768, 32768, 32768, 32768, 32768, 32768, 32768, 32768, 32768, 32768, 32768, 32768, 32768,
     32768, 32768, 32768, 32768, 32768, 32768, 32768, 32768, 32768, 32768, 32768, 32768, 32768, 32768, 32768, 32768, 32768, 32768, 32768, 32768,
     32768, 32768, 32768, 32768, 32768, 32768, 32768, 32768, 32768, 32768, 32768, 32768, 32768, 32768, 32768, 32768, 32768, 32768, 32768, 32768,
     32768, 32768, 32768, 32768, 32768, 32768, 32768, 32768, 32768, 32768, 32768, 32768, 32768, 32768, 32768, 32768, 32768, 32768, 32768, 32768,
     32768, 32768, 32768, 32768, 32768, 32768, 32768, 32768, 32768, 32768, 32768, 32768, 32768, 32768, 32768, 32768, 32768, 32768, 32768, 32768,
     32768, 32768, 32768, 32768, 32768, 32768, 32768, 32768, 32768, 32768, 32768, 32768, 32768, 32768, 32768, 32768, 32768, 32768, 32768, 32768,
     32768, 32768, 32768, 32768, 32768, 32768, 32768, 32768, 32768, 32768, 32768, 32768, 32768, 32768, 32768, 32768, 32768, 32768, 32768, 32768,
     32768, 32768, 32768, 32768, 32768, 32768, 32768, 32768, 32768, 32768, 32768, 32768, 32768, 32768, 32768, 32768, 32768, 32768, 32768, 32768,
     32768, 32768, 32768, 32768, 32768, 32768, 32768, 32768, 32768, 32768, 32768, 32768, 32768, 32768, 32768, 32768, 32768, 32768, 32768, 32768,
     32768, 32768, 32768, 32768, 32768, 32768, 32768, 32768, 32768, 32768, 32768, 32768, 32768, 32768, 32768, 32768, 32768, 32768, 32768, 32768,
     32768, 32768, 32768, 32768, 32768, 32768, 32768, 32768, 32768, 32768, 32768, 32768, 32768, 32768, 32768, 32768, 32768, 32768, 32768, 32768,
     32768, 32768, 32768, 32768, 32768, 32768, 32768, 32768, 32768, 32768, 32768, 32768, 32768, 32768, 32768, 32768, 32768, 32768, 32768, 32768,
     32768, 32768, 32768, 32768, 32768, 32768, 32768, 32768, 32768, 32768, 32768, 32768, 32768, 32768, 32768, 32768, 32768, 32768, 32768, 32768 >>

\* base**n in fixed point, n a non-negative integer
RECURSIVE FPow(_, _)
FPow(base, n) ==
    IF n = 0 THEN CdfScale ELSE (FPow(base, n - 1) * base) \div CdfScale

\* F = 1.0 - (1.0 - f)**n at grid point i
OrderCdf(i, n) == CdfScale - FPow(CdfScale - NormalCdf[i], n)

\* numpy.interp(0.5, F, x), times XDen
InterpHalf(n) ==
    LET half == CdfScale \div 2
        F == [i \in 1..GridPoints |-> OrderCdf(i, n)]
    IN  IF half > F[GridPoints] THEN XGrid(GridPoints)
        ELSE IF half < F[1] THEN XGrid(1)
        ELSE LET j == CHOOSE k \in 1..GridPoints :
                          /\ F[k] <= half
                          /\ (k = GridPoints \/ F[k + 1] > half)
             IN  IF j = GridPoints THEN XGrid(GridPoints)
                 ELSE XGrid(j) + (20 * (half - F[j])) \div (F[j + 1] - F[j])

Abs(a) == IF a < 0 THEN -a ELSE a

\* ratio = numpy.abs(numpy.interp(0.5, F, x)) with n = boxsize**2.0, times XDen
CalibrationRatio(b) == Abs(InterpHalf(b * b))

\* int(options.boxsize), the valid ones
BoxSizes == 1..MaxBox

\* the ratio of each box size, computed once
RatioTable == [b \in BoxSizes |-> CalibrationRatio(b)]

---------------------------------------------------------------------------
(* Images *)

\* the same function, with its values computed
Force(f) == f @@ <<>>

Pixels(sh) == (0..(sh[1] - 1)) \X (0..(sh[2] - 1))

\* mode 'reflect' of scipy.ndimage: index k outside 0..n-1 reads (d c b a | a b c d | d c b a)
Reflect(k, n) ==
    LET r == k % (2 * n)
    IN  IF r < n THEN r ELSE 2 * n - 1 - r

\* the window of a 1-d filter of the given size at index i: i - size//2 .. i - size//2 + size - 1;
\* an axis of size <= 1 is not filtered
WindowIdx(i, size, n) ==
    IF size <= 1 THEN {i}
    ELSE {Reflect(k, n) : k \in (i - size \div 2)..(i - size \div 2 + size - 1)}

SetMin(S) == CHOOSE m \in S : \A x \in S : m <= x

\* scipy.ndimage.filters.minimum_filter(image, (boxsize, boxsize))
MinimumFilter(image, sh, size) ==
    Force([p \in Pixels(sh) |->
        SetMin({image[<<i, j>>] : i \in WindowIdx(p[1], size, sh[1]),
                                  j \in WindowIdx(p[2], size, sh[2])})])

\* the k-th smallest (k = 1 is the least) of the values of a, none of them nan
KthSmallest(a, k) ==
    LET D == DOMAIN a
    IN  CHOOSE v \in {a[p] : p \in D} :
            /\ Cardinality({p \in D : a[p] < v}) < k
            /\ Cardinality({p \in D : a[p] <= v}) >= k

\* numpy.median(a): nan if a holds a nan; the middle value, or the mean of the two middle values
Median(a) ==
    LET n == Cardinality(DOMAIN a)
    IN  IF \E p \in DOMAIN a : IsNaN(a[p]) THEN NaN
        ELSE IF n % 2 = 1 THEN KthSmallest(a, (n + 1) \div 2)
        ELSE FMean(KthSmallest(a, n \div 2), KthSmallest(a, n \div 2 + 1))

---------------------------------------------------------------------------
(* make_noise_map, lines 49-66 *)

\* line 59: noise = -minimum_filter(restored_image, box) / ratio
RawNoise(image, sh, b) ==
    LET wmin == MinimumFilter(image, sh, b)
    IN  Force([p \in Pixels(sh) |-> FDiv((-wmin[p]) * XDen, RatioTable[b])])

\* lines 60-61: noise[noise < 0.0] = 1.0e-10
FloorGuard(noise) ==
    Force([p \in DOMAIN noise |-> IF FLt(noise[p], 0) THEN Floor ELSE noise[p]])

\* the clamp of lines 63-64 left out
MedianClampSkipped(noise, med) == noise

\* lines 63-64: noise[noise < median_noise] = median_noise
MedianClamp(noise, med) ==
    Force([p \in DOMAIN noise |-> IF FLt(noise[p], med) THEN med ELSE noise[p]])

\* lines 59-61: the noise after the floor guard
FlooredNoise(image, sh, b) == FloorGuard(RawNoise(image, sh, b))

\* line 62
MedianNoise(image, sh, b) == Median(FlooredNoise(image, sh, b))

make_noise_map(image, sh, b) ==
    LET floored == FlooredNoise(image, sh, b)
    IN  MedianClamp(floored, Median(floored))

---------------------------------------------------------------------------
(* Masks: main, lines 103-117 *)

\* line 103 with >= for >
ThresholdInclusive(image, noise, t) ==
    Force([p \in DOMAIN image |-> FGe(2 * image[p], FMul(t, noise[p]))])

\* line 103: mask_image = input_image > threshold * noise_image (threshold in halves)
Threshold(image, noise, t) ==
    Force([p \in DOMAIN image |-> FGt(2 * image[p], FMul(t, noise[p]))])

OnBorder(p, sh) ==
    p[1] = 0 \/ p[1] = sh[1] - 1 \/ p[2] = 0 \/ p[2] = sh[2] - 1

\* lines 105-108: the first and last row and column are set to 0
BorderSuppress(mask, sh) ==
    Force([p \in DOMAIN mask |-> IF OnBorder(p, sh) THEN FALSE ELSE mask[p]])

\* the neighbours of p under the full 3x3 structure, diagonals included
NeighboursEight(p, sh) ==
    {q \in ((p[1] - 1)..(p[1] + 1)) \X ((p[2] - 1)..(p[2] + 1)) :
        q # p /\ q \in Pixels(sh)}

\* the neighbours of p under generate_binary_structure(2, 1), inside the image
Neighbours(p, sh) ==
    {q \in {<<p[1] - 1, p[2]>>, <<p[1] + 1, p[2]>>, <<p[1], p[2] - 1>>, <<p[1], p[2] + 1>>} :
        q \in Pixels(sh)}

\* one pass of binary dilation, border_value outside the image; a pixel
\* where `where` is false keeps its value
DilateOnce(cur, where, border_value, sh) ==
    Force([p \in DOMAIN cur |->
        IF where[p]
        THEN \/ cur[p]
             \/ \E q \in Neighbours(p, sh) : cur[q]
             \/ (border_value /\ OnBorder(p, sh))
        ELSE cur[p]])

RECURSIVE DilateTimes(_, _, _, _, _)
DilateTimes(cur, where, border_value, sh, k) ==
    IF k = 0 THEN cur
    ELSE DilateTimes(DilateOnce(cur, where, border_value, sh), where, border_value, sh, k - 1)

RECURSIVE DilateUntilStable(_, _, _, _)
DilateUntilStable(cur, where, border_value, sh) ==
    LET next == DilateOnce(cur, where, border_value, sh)
    IN  IF next = cur THEN cur ELSE DilateUntilStable(next, where, border_value, sh)

Everywhere(sh) == Force([p \in Pixels(sh) |-> TRUE])

\* scipy's binary_dilation(input, iterations = k): k passes, and for k < 1
\* passes until nothing changes
binary_dilation(mask, sh, k) ==
    IF k < 1 THEN DilateUntilStable(mask, Everywhere(sh), FALSE, sh)
    ELSE DilateTimes(mask, Everywhere(sh), FALSE, sh, k)

\* scipy's binary_fill_holes(input): the complement of the dilation of the empty
\* image, from a border of 1, inside the complement of input, until stable
binary_fill_holes(mask, sh) ==
    LET background == Force([p \in Pixels(sh) |-> ~mask[p]])
        empty == Force([p \in Pixels(sh) |-> FALSE])
        outside == DilateUntilStable(empty, background, TRUE, sh)
    IN  Force([p \in Pixels(sh) |-> ~outside[p]])

\* lines 110-113 without the test of line 110
DilateStepUnguarded(mask, sh, k) == binary_dilation(mask, sh, k)

\* lines 110-113
DilateStep(mask, sh, k) == IF k # 0 THEN binary_dilation(mask, sh, k) ELSE mask

\* lines 115-117
FillStep(mask, sh, fill) == IF fill THEN binary_fill_holes(mask, sh) ELSE mask

---------------------------------------------------------------------------
(* main, lines 82-125 *)

NoiseStage ==
    /\ pc = "noise"
    /\ noise_image' = make_noise_map(input_image, shape, boxsize)
    /\ median_noise' = MedianNoise(input_image, shape, boxsize)
    /\ noise_fits' = savenoise
    /\ stages' = Append(stages, "noise")
    /\ pc' = "threshold"
    /\ UNCHANGED <<shape, input_image, boxsize, threshold, dilate, fill_holes,
                   savenoise, mask_image, stage_in, mask_fits>>

ThresholdStage ==
    /\ pc = "threshold"
    /\ mask_image' = Threshold(input_image, noise_image, threshold)
    /\ stages' = Append(stages, "threshold")
    /\ pc' = "border"
    /\ UNCHANGED <<shape, input_image, boxsize, threshold, dilate, fill_holes,
                   savenoise, noise_image, median_noise, stage_in, noise_fits, mask_fits>>

BorderStage ==
    /\ pc = "border"
    /\ mask_image' = BorderSuppress(mask_image, shape)
    /\ stages' = Append(stages, "border")
    /\ pc' = "dilate"
    /\ UNCHANGED <<shape, input_image, boxsize, threshold, dilate, fill_holes,
                   savenoise, noise_image, median_noise, stage_in, noise_fits, mask_fits>>

DilateStage ==
    /\ pc = "dilate"
    /\ stage_in' = mask_image
    /\ mask_image' = DilateStep(mask_image, shape, dilate)
    /\ stages' = IF dilate # 0 THEN Append(stages, "dilate") ELSE stages
    /\ pc' = "fill"
    /\ UNCHANGED <<shape, input_image, boxsize, threshold, dilate, fill_holes,
                   savenoise, noise_image, median_noise, noise_fits, mask_fits>>

FillStage ==
    /\ pc = "fill"
    /\ stage_in' = mask_image
    /\ mask_image' = FillStep(mask_image, shape, fill_holes)
    /\ stages' = IF fill_holes THEN Append(stages, "fill") ELSE stages
    /\ pc' = "write"
    /\ UNCHANGED <<shape, input_image, boxsize, threshold, dilate, fill_holes,
                   savenoise, noise_image, median_noise, noise_fits, mask_fits>>

WriteStage ==
    /\ pc = "write"
    /\ mask_fits' = mask_image
    /\ pc' = "done"
    /\ UNCHANGED <<shape, input_image, boxsize, threshold, dilate, fill_holes,
                   savenoise, noise_image, median_noise, mask_image, stage_in,
                   stages, noise_fits>>

MaxSide == 4

MaxDilate == 1

\* float(options.threshold), in halves: 0, 1.0, the default 6.5
Thresholds == {0, 2, 13}

ImageShapes == {sh \in (1..MaxSide) \X (1..MaxSide) : sh[2] \in {sh[1], sh[1] + 1}}

\* a flat background with one pixel set apart
Images(sh) ==
    {[p \in Pixels(sh) |-> IF p = src THEN v ELSE bg] :
        src \in Pixels(sh), v \in {-PixUnit, PixUnit}, bg \in {-PixUnit, 0}}

Init ==
    /\ shape \in ImageShapes
    /\ input_image \in Images(shape)
    /\ boxsize \in BoxSizes
    /\ threshold \in Thresholds
    /\ dilate \in -1..MaxDilate
    /\ fill_holes \in BOOLEAN
    /\ savenoise \in BOOLEAN
    /\ noise_image = Unset /\ median_noise = Unset
    /\ mask_image = Unset /\ stage_in = Unset /\ stages = <<>>
    /\ noise_fits = FALSE /\ mask_fits = Unset
    /\ pc = "noise"

Next ==
    \/ NoiseStage
    \/ ThresholdStage
    \/ BorderStage
    \/ DilateStage
    \/ FillStage
    \/ WriteStage

Spec == Init /\ [][Next]_vars

---------------------------------------------------------------------------
(* make_noise_map on its own: every image of at most MaxPixels pixels *)

PixelValues == {-2 * PixUnit, -PixUnit, 0, PixUnit}

NoiseShapes == {sh \in (1..MaxPixels) \X (1..MaxPixels) : sh[1] * sh[2] <= MaxPixels}

InitNoise ==
    /\ shape \in NoiseShapes
    /\ input_image \in [Pixels(shape) -> PixelValues]
    /\ boxsize \in BoxSizes
    /\ threshold = 0 /\ dilate = 0 /\ fill_holes = FALSE /\ savenoise = FALSE
    /\ noise_image = Unset /\ median_noise = Unset
    /\ mask_image = Unset /\ stage_in = Unset /\ stages = <<>>
    /\ noise_fits = FALSE /\ mask_fits = Unset
    /\ pc = "make_noise_map"

NoiseMapCall ==
    /\ pc = "make_noise_map"
    /\ noise_image' = make_noise_map(input_image, shape, boxsize)
    /\ median_noise' = MedianNoise(input_image, shape, boxsize)
    /\ pc' = "returned"
    /\ UNCHANGED <<shape, input_image, boxsize, threshold, dilate, fill_holes,
                   savenoise, mask_image, stage_in, stages, noise_fits, mask_fits>>

NextNoise == NoiseMapCall

SpecNoise == InitNoise /\ [][NextNoise]_vars

---------------------------------------------------------------------------
(* The dilation stage and the hole-filling stage, each on its own: every     *)
(* mask of at most MaxMaskPixels pixels, given to lines 110-113 and 115-117 *)

MaxMaskPixels == 12

MaskShapes ==
    {sh \in (1..MaxMaskPixels) \X (1..MaxMaskPixels) : sh[1] * sh[2] <= MaxMaskPixels}

InitDilate ==
    /\ shape \in MaskShapes
    /\ mask_image \in [Pixels(shape) -> BOOLEAN]
    /\ dilate \in 0..MaxDilate
    /\ fill_holes = FALSE
    /\ input_image = Unset /\ boxsize = 1 /\ threshold = 0 /\ savenoise = FALSE
    /\ noise_image = Unset /\ median_noise = Unset
    /\ stage_in = Unset /\ stages = <<>>
    /\ noise_fits = FALSE /\ mask_fits = Unset
    /\ pc = "dilate"

NextDilate == DilateStage

SpecDilate == InitDilate /\ [][NextDilate]_vars

InitFill ==
    /\ shape \in MaskShapes
    /\ mask_image \in [Pixels(shape) -> BOOLEAN]
    /\ dilate = 0
    /\ fill_holes \in BOOLEAN
    /\ input_image = Unset /\ boxsize = 1 /\ threshold = 0 /\ savenoise = FALSE
    /\ noise_image = Unset /\ median_noise = Unset
    /\ stage_in = Unset /\ stages = <<>>
    /\ noise_fits = FALSE /\ mask_fits = Unset
    /\ pc = "fill"

NextFill == FillStage

SpecFill == InitFill /\ [][NextFill]_vars

---------------------------------------------------------------------------
(* Properties *)

ValidParameters == boxsize > 0 /\ threshold > 0 /\ dilate >= 0

NothingComputed ==
    /\ stages = <<>>
    /\ noise_image = Unset
    /\ mask_image = Unset
    /\ noise_fits = FALSE
    /\ mask_fits = Unset

\* C1: a run with boxsize <= 0, threshold <= 0 or dilate < 0 is rejected before
\* the pipeline executes: no stage runs and no file is written.
C1_InvalidRejected == ~ValidParameters => NothingComputed

\* C2: every element of the noise map make_noise_map returns is > 0 (stated for
\* the box sizes whose ratio is positive, where line 59 is an ordinary division).
C2_NoisePositive ==
    (pc = "returned" /\ RatioTable[boxsize] > 0)
        => \A p \in Pixels(shape) : FGt(noise_image[p], 0)

\* C3 as stated: every element of the returned noise map is >= the median of
\* the returned noise map (stated for the box sizes whose ratio is positive).
C3_AboveReturnedMedian ==
    (pc = "returned" /\ RatioTable[boxsize] > 0)
        => \A p \in Pixels(shape) : FGe(noise_image[p], Median(noise_image))

OddPixelCount == (shape[1] * shape[2]) % 2 = 1

\* C3, amended: no element of the returned noise map is less than median_noise,
\* the median make_noise_map takes of the floor-guarded noise before the clamp;
\* for an odd pixel count none is less than the median of the returned map either.
C3_AboveClampMedian ==
    pc = "returned" =>
        /\ \A p \in Pixels(shape) : ~FLt(noise_image[p], median_noise)
        /\ OddPixelCount =>
               \A p \in Pixels(shape) : ~FLt(noise_image[p], Median(noise_image))

\* an even pixel count, a positive ratio, and an element the clamp has raised
C3_Witness ==
    /\ pc = "returned"
    /\ ~OddPixelCount
    /\ RatioTable[boxsize] > 0
    /\ \E p \in Pixels(shape) :
           /\ FLt(FlooredNoise(input_image, shape, boxsize)[p], median_noise)
           /\ noise_image[p] = median_noise

BorderClear(mask) == \A p \in Pixels(shape) : OnBorder(p, shape) => ~mask[p]

\* C4: from border suppression to the end of the run, for every dilate >= 0 and
\* either fill_holes setting, the first and last row and column of the mask are
\* false, in the mask that is written out too.
C4_BorderStaysClear ==
    ValidParameters =>
        /\ pc \in {"dilate", "fill", "write", "done"} => BorderClear(mask_image)
        /\ pc = "done" => BorderClear(mask_fits)

ExpectedStages ==
    <<"noise", "threshold", "border">>
        \o (IF dilate > 0 THEN <<"dilate">> ELSE <<>>)
        \o (IF fill_holes THEN <<"fill">> ELSE <<>>)

IsPrefix(s, t) == Len(s) <= Len(t) /\ s = SubSeq(t, 1, Len(s))

\* k passes of dilation by the cross
RECURSIVE Dilated(_, _)
Dilated(mask, k) ==
    IF k <= 0 THEN mask
    ELSE Dilated([p \in Pixels(shape) |->
                     \E q \in Pixels(shape) :
                         mask[q] /\ Abs(p[1] - q[1]) + Abs(p[2] - q[2]) <= 1],
                 k - 1)

\* C5: the stages run in the order noise, threshold, border, dilation (only when
\* dilate > 0), hole filling (only when fill_holes), and the mask written is
\* HoleFill(Dilate(BorderSuppress(Threshold(image, noise)), dilate)).
C5_StageOrder ==
    /\ IsPrefix(stages, ExpectedStages)
    /\ pc = "done" =>
           /\ stages = ExpectedStages
           /\ mask_fits =
                  FillStep(Dilated(BorderSuppress(
                               Threshold(input_image, noise_image, threshold), shape),
                           dilate),
                           shape, fill_holes)

\* C5 on the runs whose dilate is not negative
C5_StageOrderValidDilate == dilate >= 0 => C5_StageOrder

\* C6: the dilation stage's output with dilate = k is a subset of its output
\* with dilate = k + 1, and with dilate = 0 it is the input mask.
C6_DilationMonotone ==
    (pc = "fill" /\ dilate >= 0) =>
        LET more == DilateStep(stage_in, shape, dilate + 1)
        IN  /\ \A p \in Pixels(shape) : mask_image[p] => more[p]
            /\ dilate = 0 => mask_image = stage_in

\* the stage has grown the mask, and one more iteration grows it further
C6_Witness ==
    /\ pc = "fill"
    /\ dilate >= 1
    /\ mask_image # stage_in
    /\ DilateStep(stage_in, shape, dilate + 1) # mask_image

Adjacent4(p, q) ==
    \/ p[1] = q[1] /\ Abs(p[2] - q[2]) = 1
    \/ p[2] = q[2] /\ Abs(p[1] - q[1]) = 1

\* the false pixels joined to the set S by a chain of adjacent false pixels
RECURSIVE FalseRegion(_, _)
FalseRegion(mask, S) ==
    LET T == S \cup {q \in Pixels(shape) :
                        ~mask[q] /\ \E r \in S : Adjacent4(q, r)}
    IN  IF T = S THEN S ELSE FalseRegion(mask, T)

ReachesBorder(mask, p) ==
    \E q \in FalseRegion(mask, {p}) : OnBorder(q, shape)

\* C7: hole filling sets to true exactly the false pixels whose 4-connected false
\* region does not reach the image border, and changes nothing else.
C7_FillsExactlyHoles ==
    (pc = "write" /\ fill_holes) =>
        \A p \in Pixels(shape) :
            mask_image[p] = (stage_in[p] \/ ~ReachesBorder(stage_in, p))

\* a hole has been filled while a false pixel joined to the border was kept
C7_Witness ==
    /\ pc = "write"
    /\ fill_holes
    /\ \E p \in Pixels(shape) : ~stage_in[p] /\ mask_image[p]
    /\ \E p \in Pixels(shape) : ~stage_in[p] /\ ~mask_image[p]

\* C8: for every boxsize >= 1 the calibration ratio make_noise_map has divided
\* by is strictly positive.
C8_RatioPositive == (pc = "returned" /\ boxsize >= 1) => RatioTable[boxsize] > 0

AllMinimaZero ==
    \A p \in Pixels(shape) : MinimumFilter(input_image, shape, boxsize)[p] = 0

\* C9: for an image all of whose windowed minima are 0, every element of the
\* returned noise map is 1e-10 (stated for the box sizes whose ratio is positive).
C9_ZeroImageGivesFloor ==
    (pc = "returned" /\ RatioTable[boxsize] > 0 /\ AllMinimaZero)
        => \A p \in Pixels(shape) : noise_image[p] = Floor

\* the image is 0 except at the interior pixel src, which is positive
SingleSource(src) ==
    /\ ~OnBorder(src, shape)
    /\ input_image[src] > 0
    /\ \A q \in Pixels(shape) : q # src => input_image[q] = 0

\* C10: for an image that is 0 except for one positive interior pixel, and a box
\* of side >= 2, the mask after thresholding and border suppression is true at that
\* pixel only, and after the dilation stage with dilate = 1 it is true exactly at the
\* pixel and its four direct neighbours.
C10_SingleSourcePlus ==
    \A src \in Pixels(shape) :
        (SingleSource(src) /\ boxsize >= 2) =>
            /\ pc = "dilate" => mask_image = [p \in Pixels(shape) |-> p = src]
            /\ (pc = "fill" /\ dilate = 1) =>
                   mask_image = [p \in Pixels(shape) |->
                                    Abs(p[1] - src[1]) + Abs(p[2] - src[2]) <= 1]

\* the spec's parameters (threshold 1, boxsize 3, dilate 1) after the dilation stage
C10_Witness ==
    /\ pc = "fill"
    /\ dilate = 1
    /\ boxsize = 3
    /\ threshold = 2
    /\ \E src \in Pixels(shape) : SingleSource(src) /\ mask_image[src]

=============================================================================
